---- MODULE Spec2Model ----
(***************************************************************************)
(* State-machine model of download_images.py: the scrape-and-download      *)
(* pipeline download_product_images and the filename sanitizer             *)
(* clean_filename.  Strings on which the program computes (titles, image   *)
(* URLs, file names) are sequences of one-character strings.               *)
(***************************************************************************)
EXTENDS Integers, Sequences, FiniteSets, TLC

VARIABLES
    pc,             \* position of the single thread of control
    run,            \* number of the current call of download_product_images
    runs,           \* how many calls the caller makes one after the other
    stable,         \* TRUE: a later call gets the responses of the first one
    tape,           \* responses handed out during the first call (when stable)
    tp,             \* next position of tape to hand out again
    folder,         \* does popcultcha_products/ exist
    fs,             \* files of the folder: file name -> bytes
    fs1,            \* fs as the first call left it
    owner,          \* file name -> product_count of the write that made it
    page_error,     \* page of the last "Error processing page" line, 0: none
    product_error,  \* product of the last "Error processing product" line
    imgs_seen,      \* img elements matched so far during this call
    fetched,        \* page numbers requested at line 78 during this call
    product_count,
    page,
    nlinks,         \* len(product_links)
    index,          \* enumerate(product_links, 1)
    listed,         \* product links of the pages already left behind
    product_url,
    product_title,
    nimgs,          \* len(product_images)
    img_index,      \* enumerate(product_images, 1)
    cand,           \* elements of this product that yielded a URL
    skipped,        \* elements of this product that yielded none
    img_url,
    status,         \* img_response.status_code
    content,        \* img_response.content
    file_extension,
    file_name,
    raw             \* argument of the last clean_filename call

vars == <<pc, run, runs, stable, tape, tp, folder, fs, fs1, owner, page_error,
          product_error, imgs_seen,
          fetched, product_count, page, nlinks, index, listed, product_url,
          product_title, nimgs, img_index, cand, skipped, img_url, status,
          content, file_extension, file_name, raw>>

(***************************************************************************)
(* Bounds of the model and constants of the program.                       *)
(***************************************************************************)
MaxProducts == 2      \* product links of one whole run
MaxElems == 2         \* matched img elements of one whole run
MaxAnswers == 7       \* answers a stable site gives before it goes down
MaxPattern == 2       \* length of the pattern a long title repeats

LastPage == 4         \* range(1, 5)
TitleLimit == 150     \* title[:150]
StatusOk == 200       \* img_response.status_code == 200

Min(a, b) == IF a < b THEN a ELSE b

None == <<>>

(***************************************************************************)
(* String helpers.                                                         *)
(***************************************************************************)
Digits == <<"0", "1", "2", "3", "4", "5", "6", "7", "8", "9">>

RECURSIVE Str(_)
\* str(n) of an f-string, n >= 0
Str(n) == IF n < 10 THEN <<Digits[n + 1]>>
          ELSE Str(n \div 10) \o <<Digits[(n % 10) + 1]>>

Whitespace == {" "}

RECURSIVE strip(_)
\* str.strip()
strip(s) ==
    IF s = <<>> THEN s
    ELSE IF s[1] \in Whitespace THEN strip(Tail(s))
    ELSE IF s[Len(s)] \in Whitespace THEN strip(SubSeq(s, 1, Len(s) - 1))
    ELSE s

\* str.replace(ch, '')
replace(s, ch) == SelectSeq(s, LAMBDA c : c # ch)

\* s[:n]
Slice(s, n) == SubSeq(s, 1, Min(n, Len(s)))

invalid_chars == <<"<", ">", ":", "\"", "/", "\\", "|", "?", "*">>

RECURSIVE RemoveEach(_, _, _)
\* for char in invalid_chars: title = title.replace(char, '')
RemoveEach(title, chars, i) ==
    IF i > Len(chars) THEN title
    ELSE RemoveEach(replace(title, chars[i]), chars, i + 1)

\* clean_filename with the slice taken before the characters are removed
clean_filename_SliceFirst(title) ==
    RemoveEach(Slice(title, TitleLimit), invalid_chars, 1)

clean_filename(title) == Slice(RemoveEach(title, invalid_chars, 1), TitleLimit)

\* str.rfind(ch), 1-based, 0 when absent
rfind(s, ch) ==
    LET hits == {i \in 1..Len(s) : s[i] = ch}
    IN  IF hits = {} THEN 0 ELSE CHOOSE i \in hits : \A j \in hits : j <= i

\* os.path.splitext(p)[1]
splitext(p) ==
    LET sepIndex == rfind(p, "/")
        dotIndex == rfind(p, ".")
    IN  IF /\ dotIndex > sepIndex
           /\ \E k \in (sepIndex + 1)..(dotIndex - 1) : p[k] # "."
        THEN SubSeq(p, dotIndex, Len(p))
        ELSE <<>>

startswith(s, prefix) ==
    /\ Len(s) >= Len(prefix)
    /\ SubSeq(s, 1, Len(prefix)) = prefix

\* if img_url.startswith('//'): img_url = 'https:' + img_url
ResolveUrl(u) ==
    IF startswith(u, <<"/", "/">>)
    THEN <<"h", "t", "t", "p", "s", ":">> \o u
    ELSE u

\* img.get('src') or img.get('data-src') or img.get('data-lazy-src')
FirstUrl(img) ==
    IF img[1] # None THEN img[1]
    ELSE IF img[2] # None THEN img[2]
    ELSE img[3]

\* os.path.splitext(img_url)[1] or '.jpg'
FileExtension(u) ==
    IF splitext(u) # <<>> THEN splitext(u) ELSE <<".", "j", "p", "g">>

\* f"{product_count}_{product_title}_{img_index}{file_extension}"
FileName(count, title, i, ext) ==
    Str(count) \o <<"_">> \o title \o <<"_">> \o Str(i) \o ext

base_url == <<"B">>

\* f"{base_url}?p={page}" if page > 1 else base_url
PageUrl(p) == IF p > 1 THEN base_url \o <<"?", "p", "=">> \o Str(p) ELSE base_url

(***************************************************************************)
(* The site and the disk: what a request or a write can answer.            *)
(***************************************************************************)
LinkTexts ==
    { <<"a", "/", "b">>, <<" ", "a", "b">>, <<"1", "_">> }

ProductUrls == { <<"x">>, <<"y">> }

ImgUrls ==
    { <<"/", "/", "h", "/", "a", ".", "j", "p", "g">>,
      <<"h", ":", "/", "/", "h", ".", "i", "o", "/", "b">>,
      <<"h", ":", "/", "/", "h", "/", "c", ".", "j", "p", "g", "?", "v", "=", "1">> }

Bodies == {"b1"}

Get(url) == <<"GET">> \o url

Replaying == stable /\ run > 1

\* The answers the environment may give to the request `key`.
Choices(key, S) ==
    IF Replaying /\ tp <= Len(tape) /\ tape[tp][1] = key
    THEN {tape[tp][2]}
    ELSE S

Record(key, v) ==
    /\ tape' = IF stable /\ run = 1 THEN Append(tape, <<key, v>>) ELSE tape
    /\ tp' = IF Replaying THEN tp + 1 ELSE tp

FetchAnswers(n) == {<<"raise">>} \cup {<<"ok", k>> : k \in 0..n}

OtherStatuses == {404}

ImgAnswers ==
    {<<"raise">>}
        \cup {<<"ok", st, "">> : st \in OtherStatuses}
        \cup {<<"ok", StatusOk, b>> : b \in Bodies}

\* open raises, or f.write raises in the file that open has truncated
WriteAnswers == {<<"ok">>, <<"raise", "open">>, <<"raise", "write">>}

\* What a stable site answers once it has given MaxAnswers answers: requests
\* and writes raise, a link or an element reads as the first of its kind.
Exhausted(S) ==
    IF \E v \in S : v[1] = "raise"
    THEN {v \in S : v[1] = "raise"}
    ELSE {CHOOSE v \in S : TRUE}

\* The answers to a request, a write or a read of the parsed page.
Answers(key, S) ==
    Choices(key, IF stable /\ Len(tape) >= MaxAnswers THEN Exhausted(S) ELSE S)

Put(f, k, v) == [x \in DOMAIN f \cup {k} |-> IF x = k THEN v ELSE f[x]]

NoFile == [x \in {} |-> ""]

\* The attributes of an img element as the program reads them: what stands
\* behind the first non-empty attribute is never read and is left out as None.
Elements ==
    {e \in (ImgUrls \cup {None}) \X (ImgUrls \cup {None}) \X (ImgUrls \cup {None}) :
        /\ e[1] # None => e[2] = None
        /\ (e[1] # None \/ e[2] # None) => e[3] = None}

(***************************************************************************)
(* download_product_images                                                 *)
(***************************************************************************)
Caller == <<run, runs, stable, fs1>>
Disk == <<folder, fs, owner>>
Errors == <<page_error, product_error>>
Pages == <<page, fetched, listed>>
Links == <<nlinks, index>>
Product == <<product_url, product_title>>
Imgs == <<nimgs, img_index, cand, skipped, imgs_seen>>
Image == <<img_url, status, content>>
File == <<file_extension, file_name>>

InitCommon ==
    /\ pc = "idle"
    /\ run = 0
    /\ tape = <<>>
    /\ tp = 1
    /\ folder \in BOOLEAN
    /\ fs = NoFile
    /\ fs1 = NoFile
    /\ owner = [x \in {} |-> 0]
    /\ page_error = 0
    /\ product_error = 0
    /\ imgs_seen = 0
    /\ fetched = <<>>
    /\ product_count = 0
    /\ page = 0
    /\ nlinks = 0
    /\ index = 0
    /\ listed = 0
    /\ product_url = None
    /\ product_title = None
    /\ nimgs = 0
    /\ img_index = 0
    /\ cand = 0
    /\ skipped = 0
    /\ img_url = None
    /\ status = 0
    /\ content = ""
    /\ file_extension = None
    /\ file_name = None
    /\ raw = None

Init == InitCommon /\ runs = 1 /\ stable = FALSE

InitTwice == InitCommon /\ runs = 2 /\ stable = TRUE

\* lines 62-65: the call, create_download_folder()
Call ==
    /\ pc \in {"idle", "returned", "raised"}
    /\ run < runs
    /\ run' = run + 1
    /\ fs1' = IF run = 1 THEN fs ELSE fs1
    /\ folder' = TRUE
    /\ tp' = 1
    /\ fetched' = <<>>
    /\ page_error' = 0
    /\ product_error' = 0
    /\ imgs_seen' = 0
    /\ page' = 0
    /\ listed' = 0
    /\ pc' = "main_fetch"
    /\ UNCHANGED <<runs, stable, tape, fs, owner, product_count, Links, Product,
                   nimgs, img_index, cand, skipped, Image, File, raw>>

\* MainFetchOk with product_count kept from the call before (a counter of the
\* process instead of the call)
MainFetchOk_KeepsCount ==
    /\ pc = "main_fetch"
    /\ \E v \in Answers(Get(base_url), {<<"ok">>, <<"raise">>}) :
          /\ v[1] = "ok"
          /\ Record(Get(base_url), v)
    /\ product_count' = product_count
    /\ page' = 1
    /\ pc' = "page_fetch"
    /\ UNCHANGED <<Caller, Disk, Errors, fetched, listed, Links, Product, Imgs,
                   Image, File, raw>>

\* lines 68-71: the request of the first page answers
MainFetchOk ==
    /\ pc = "main_fetch"
    /\ \E v \in Answers(Get(base_url), {<<"ok">>, <<"raise">>}) :
          /\ v[1] = "ok"
          /\ Record(Get(base_url), v)
    /\ product_count' = 0
    /\ page' = 1
    /\ pc' = "page_fetch"
    /\ UNCHANGED <<Caller, Disk, Errors, fetched, listed, Links, Product, Imgs,
                   Image, File, raw>>

\* line 68 raises: no try statement encloses it
MainFetchRaise ==
    /\ pc = "main_fetch"
    /\ \E v \in Answers(Get(base_url), {<<"ok">>, <<"raise">>}) :
          /\ v[1] = "raise"
          /\ Record(Get(base_url), v)
    /\ pc' = "raised"
    /\ UNCHANGED <<Caller, Disk, Errors, Pages, product_count, Links, Product,
                   Imgs, Image, File, raw>>

\* lines 74-82: the page answers with its product links
PageFetchOk ==
    /\ pc = "page_fetch"
    /\ page <= LastPage
    /\ \E v \in Answers(Get(PageUrl(page)), FetchAnswers(MaxProducts - product_count)) :
          /\ v[1] = "ok"
          /\ Record(Get(PageUrl(page)), v)
          /\ nlinks' = v[2]
    /\ fetched' = Append(fetched, page)
    /\ index' = 0
    /\ pc' = "product_loop"
    /\ UNCHANGED <<Caller, Disk, Errors, page, listed, product_count, Product,
                   Imgs, Image, File, raw>>

\* PageFetchRaise with the handler around the loop instead of inside it: the
\* failure of one page ends the loop
PageFetchRaise_EndsLoop ==
    /\ pc = "page_fetch"
    /\ page <= LastPage
    /\ \E v \in Answers(Get(PageUrl(page)), FetchAnswers(MaxProducts - product_count)) :
          /\ v[1] = "raise"
          /\ Record(Get(PageUrl(page)), v)
    /\ fetched' = Append(fetched, page)
    /\ page_error' = page
    /\ page' = LastPage + 1
    /\ pc' = "page_fetch"
    /\ UNCHANGED <<Caller, Disk, product_error, listed, product_count, Links,
                   Product, Imgs, Image, File, raw>>

\* lines 78, 127-128: the page request raises
PageFetchRaise ==
    /\ pc = "page_fetch"
    /\ page <= LastPage
    /\ \E v \in Answers(Get(PageUrl(page)), FetchAnswers(MaxProducts - product_count)) :
          /\ v[1] = "raise"
          /\ Record(Get(PageUrl(page)), v)
    /\ fetched' = Append(fetched, page)
    /\ page_error' = page
    /\ page' = page + 1
    /\ pc' = "page_fetch"
    /\ UNCHANGED <<Caller, Disk, product_error, listed, product_count, Links,
                   Product, Imgs, Image, File, raw>>

\* ProductNext with the position on the page (index) as the product index
ProductNext_PageIndex ==
    /\ pc = "product_loop"
    /\ index < nlinks
    /\ \E v \in Answers(<<"link">> \o Str(page) \o <<",">> \o Str(index + 1),
                        ProductUrls \X LinkTexts) :
          /\ Record(<<"link">> \o Str(page) \o <<",">> \o Str(index + 1), v)
          /\ product_url' = v[1]
          /\ product_title' = clean_filename(strip(v[2]))
    /\ index' = index + 1
    /\ product_count' = index + 1
    /\ pc' = "product_fetch"
    /\ UNCHANGED <<Caller, Disk, Errors, Pages, nlinks, Imgs, Image, File, raw>>

\* lines 85-91: the next product link
ProductNext ==
    /\ pc = "product_loop"
    /\ index < nlinks
    /\ \E v \in Answers(<<"link">> \o Str(page) \o <<",">> \o Str(index + 1),
                        ProductUrls \X LinkTexts) :
          /\ Record(<<"link">> \o Str(page) \o <<",">> \o Str(index + 1), v)
          /\ product_url' = v[1]
          /\ product_title' = clean_filename(strip(v[2]))
    /\ index' = index + 1
    /\ product_count' = product_count + 1
    /\ pc' = "product_fetch"
    /\ UNCHANGED <<Caller, Disk, Errors, Pages, nlinks, Imgs, Image, File, raw>>

\* line 85 exhausted: on to the next page
PageDone ==
    /\ pc = "product_loop"
    /\ index = nlinks
    /\ listed' = listed + nlinks
    /\ page' = page + 1
    /\ nlinks' = 0
    /\ index' = 0
    /\ pc' = "page_fetch"
    /\ UNCHANGED <<Caller, tape, tp, Disk, Errors, fetched, product_count, Product,
                   Imgs, Image, File, raw>>

\* lines 93-96: the detail page answers with its img elements
ProductFetchOk ==
    /\ pc = "product_fetch"
    /\ \E v \in Answers(Get(product_url), FetchAnswers(MaxElems - imgs_seen)) :
          /\ v[1] = "ok"
          /\ Record(Get(product_url), v)
          /\ nimgs' = v[2]
          /\ imgs_seen' = imgs_seen + v[2]
    /\ img_index' = 0
    /\ cand' = 0
    /\ skipped' = 0
    /\ pc' = "img_loop"
    /\ UNCHANGED <<Caller, Disk, Errors, Pages, Links, product_count, Product,
                   Image, File, raw>>

\* ProductFetchRaise with the product index taken back from the failed product
ProductFetchRaise_Reclaims ==
    /\ pc = "product_fetch"
    /\ \E v \in Answers(Get(product_url), FetchAnswers(MaxElems - imgs_seen)) :
          /\ v[1] = "raise"
          /\ Record(Get(product_url), v)
    /\ product_error' = product_count
    /\ product_count' = product_count - 1
    /\ product_url' = None
    /\ product_title' = None
    /\ pc' = "product_loop"
    /\ UNCHANGED <<Caller, Disk, page_error, Pages, Links, Imgs, Image, File, raw>>

\* lines 93, 121-122: the detail request raises
ProductFetchRaise ==
    /\ pc = "product_fetch"
    /\ \E v \in Answers(Get(product_url), FetchAnswers(MaxElems - imgs_seen)) :
          /\ v[1] = "raise"
          /\ Record(Get(product_url), v)
    /\ product_error' = product_count
    /\ product_url' = None
    /\ product_title' = None
    /\ pc' = "product_loop"
    /\ UNCHANGED <<Caller, Disk, page_error, Pages, Links, product_count, Imgs,
                   Image, File, raw>>

\* ImgNext with an image index that counts only the elements yielding a URL
ImgNext_CountsCandidates ==
    /\ pc = "img_loop"
    /\ img_index + skipped < nimgs
    /\ \E v \in Answers(<<"img">> \o product_url \o <<",">>
                            \o Str(img_index + skipped + 1), Elements) :
          /\ Record(<<"img">> \o product_url \o <<",">>
                        \o Str(img_index + skipped + 1), v)
          /\ IF FirstUrl(v) # None
             THEN /\ img_url' = ResolveUrl(FirstUrl(v))
                  /\ cand' = cand + 1
                  /\ skipped' = skipped
                  /\ img_index' = img_index + 1
                  /\ pc' = "img_fetch"
             ELSE /\ img_url' = None
                  /\ cand' = cand
                  /\ skipped' = skipped + 1
                  /\ img_index' = img_index
                  /\ pc' = "img_loop"
    /\ UNCHANGED <<Caller, Disk, Errors, Pages, Links, product_count, Product,
                   nimgs, imgs_seen, status, content, File, raw>>

\* lines 98-104: the next img element
ImgNext ==
    /\ pc = "img_loop"
    /\ img_index < nimgs
    /\ \E v \in Answers(<<"img">> \o product_url \o <<",">> \o Str(img_index + 1),
                        Elements) :
          /\ Record(<<"img">> \o product_url \o <<",">> \o Str(img_index + 1), v)
          /\ IF FirstUrl(v) # None
             THEN /\ img_url' = ResolveUrl(FirstUrl(v))
                  /\ cand' = cand + 1
                  /\ skipped' = skipped
                  /\ pc' = "img_fetch"
             ELSE /\ img_url' = None
                  /\ cand' = cand
                  /\ skipped' = skipped + 1
                  /\ pc' = "img_loop"
    /\ img_index' = img_index + 1
    /\ UNCHANGED <<Caller, Disk, Errors, Pages, Links, product_count, Product,
                   nimgs, imgs_seen, status, content, File, raw>>

\* ImgFetchOk without the test of the status code
ImgFetchOk_AnyStatus ==
    /\ pc = "img_fetch"
    /\ \E v \in Answers(Get(img_url), ImgAnswers) :
          /\ v[1] = "ok"
          /\ Record(Get(img_url), v)
          /\ status' = v[2]
          /\ content' = v[3]
    /\ file_extension' = FileExtension(img_url)
    /\ file_name' = FileName(product_count, product_title, img_index,
                             FileExtension(img_url))
    /\ pc' = "img_write"
    /\ UNCHANGED <<Caller, Disk, Errors, Pages, Links, product_count, Product,
                   Imgs, img_url, raw>>

\* lines 106-110: the image answers
ImgFetchOk ==
    /\ pc = "img_fetch"
    /\ \E v \in Answers(Get(img_url), ImgAnswers) :
          /\ v[1] = "ok"
          /\ Record(Get(img_url), v)
          /\ status' = v[2]
          /\ content' = v[3]
          /\ IF v[2] = StatusOk
             THEN /\ file_extension' = FileExtension(img_url)
                  /\ file_name' = FileName(product_count, product_title,
                                           img_index, FileExtension(img_url))
                  /\ pc' = "img_write"
             ELSE /\ UNCHANGED File
                  /\ pc' = "img_loop"
    /\ UNCHANGED <<Caller, Disk, Errors, Pages, Links, product_count, Product,
                   Imgs, img_url, raw>>

\* lines 106, 118-119: the image request raises
ImgFetchRaise ==
    /\ pc = "img_fetch"
    /\ \E v \in Answers(Get(img_url), ImgAnswers) :
          /\ v[1] = "raise"
          /\ Record(Get(img_url), v)
    /\ pc' = "img_loop"
    /\ UNCHANGED <<Caller, Disk, Errors, Pages, Links, product_count, Product,
                   Imgs, Image, File, raw>>

\* lines 112-114: open(file_path, 'wb') and f.write(img_response.content)
ImgWriteOk ==
    /\ pc = "img_write"
    /\ \E v \in Answers(<<"write">> \o file_name, WriteAnswers) :
          /\ v[1] = "ok"
          /\ Record(<<"write">> \o file_name, v)
    /\ fs' = Put(fs, file_name, content)
    /\ owner' = Put(owner, file_name, product_count)
    /\ file_name' = None
    /\ file_extension' = None
    /\ pc' = "img_loop"
    /\ UNCHANGED <<Caller, folder, Errors, Pages, Links, product_count, Product,
                   Imgs, Image, raw>>

\* lines 112-113, 118-119: open raises, or write raises in the file open has
\* truncated
ImgWriteRaise ==
    /\ pc = "img_write"
    /\ \E v \in Answers(<<"write">> \o file_name, WriteAnswers) :
          /\ v[1] # "ok"
          /\ Record(<<"write">> \o file_name, v)
          /\ IF v[2] = "write"
             THEN /\ fs' = Put(fs, file_name, "")
                  /\ owner' = Put(owner, file_name, product_count)
             ELSE UNCHANGED <<fs, owner>>
    /\ file_name' = None
    /\ file_extension' = None
    /\ pc' = "img_loop"
    /\ UNCHANGED <<Caller, folder, Errors, Pages, Links, product_count, Product,
                   Imgs, Image, raw>>

\* line 98 exhausted: on to the next product link
ProductDone ==
    /\ pc = "img_loop"
    /\ img_index = nimgs
    /\ product_url' = None
    /\ product_title' = None
    /\ img_url' = None
    /\ status' = 0
    /\ content' = ""
    /\ nimgs' = 0
    /\ img_index' = 0
    /\ cand' = 0
    /\ skipped' = 0
    /\ pc' = "product_loop"
    /\ UNCHANGED <<Caller, tape, tp, Disk, Errors, Pages, Links, product_count,
                   imgs_seen, File, raw>>

\* line 74 exhausted: the function returns
Return ==
    /\ pc = "page_fetch"
    /\ page > LastPage
    /\ pc' = "returned"
    /\ UNCHANGED <<Caller, tape, tp, Disk, Errors, Pages, product_count, Links,
                   Product, Imgs, Image, File, raw>>

Next ==
    \/ Call
    \/ MainFetchOk
    \/ MainFetchRaise
    \/ PageFetchOk
    \/ PageFetchRaise
    \/ ProductNext
    \/ PageDone
    \/ ProductFetchOk
    \/ ProductFetchRaise
    \/ ImgNext
    \/ ImgFetchOk
    \/ ImgFetchRaise
    \/ ImgWriteOk
    \/ ImgWriteRaise
    \/ ProductDone
    \/ Return

Spec == Init /\ [][Next]_vars

SpecTwice == InitTwice /\ [][Next]_vars

(***************************************************************************)
(* clean_filename on its own: titles long enough for the slice to cut.     *)
(***************************************************************************)
TitleChars ==
    {"<", ">", ":", "\"", "/", "\\", "|", "?", "*", "a", " "}

Patterns == UNION {[1..n -> TitleChars] : n \in 0..MaxPattern}

\* p repeated k times
Repeat(p, k) == [i \in 1..(Len(p) * k) |-> p[((i - 1) % Len(p)) + 1]]

Titles ==
    {Repeat(p, k) : p \in Patterns,
                    k \in {1, (TitleLimit \div 2) + 1, TitleLimit + 1}}

InitClean ==
    /\ InitCommon
    /\ runs = 0
    /\ stable = FALSE

\* a call clean_filename(title)
CleanCall ==
    /\ pc = "idle"
    /\ runs = 0
    /\ \E t \in Titles : raw' = t
    /\ pc' = "clean_call"
    /\ UNCHANGED <<Caller, tape, tp, Disk, Errors, Pages, product_count, Links,
                   Product, Imgs, Image, File>>

\* lines 30-33
CleanReturn ==
    /\ pc = "clean_call"
    /\ product_title' = clean_filename(raw)
    /\ pc' = "clean_done"
    /\ UNCHANGED <<Caller, tape, tp, Disk, Errors, Pages, product_count, Links,
                   product_url, Imgs, Image, File, raw>>

NextClean == CleanCall \/ CleanReturn

SpecClean == InitClean /\ [][NextClean]_vars

(***************************************************************************)
(* The claims.                                                             *)
(***************************************************************************)
InvalidSet == {"<", ">", ":", "\"", "/", "\\", "|", "?", "*"}

HasInvalid(s) == \E i \in 1..Len(s) : s[i] \in InvalidSet

InProduct == pc \in {"product_fetch", "img_loop", "img_fetch", "img_write"}

\* C1: whatever request or write raises, download_product_images never lets
\* the exception out to its caller.
C1_NeverPropagates == pc # "raised"

\* C2: a product whose detail request raises keeps its product index, and the
\* loop goes on with the entry behind it: every entry has its position in the
\* whole listing as product index, whatever failed before it, a file is
\* written under that position, and at the return every entry listed has been
\* given one.
C2_FailedProductIsolated ==
    [][/\ (pc = "product_fetch" /\ pc' = "product_loop")
            => /\ product_count' = product_count
               /\ UNCHANGED <<fs, page, nlinks, index, listed>>
       /\ InProduct' => product_count' = listed' + index'
       /\ (pc = "img_write" /\ fs' # fs)
            => DOMAIN fs' \ DOMAIN fs
                 \subseteq {FileName(listed + index, product_title, img_index,
                                     FileExtension(img_url))}
       /\ pc' = "returned" => product_count' = listed'
      ]_vars

\* C2 witness: a product failed and a product behind it has written a file.
C2_Witness ==
    /\ product_error > 0
    /\ \E f \in DOMAIN owner : owner[f] > product_error

C4_IndexUnique ==
    [][/\ (pc = "product_loop" /\ pc' = "product_fetch")
            => /\ product_count' = product_count + 1
               /\ (listed = 0 /\ index = 0) => product_count' = 1
       /\ (pc # "main_fetch" /\ ~(pc = "product_loop" /\ pc' = "product_fetch"))
            => product_count' = product_count
       /\ \A f \in DOMAIN owner \cap DOMAIN owner' : owner'[f] = owner[f]
      ]_vars

\* C4 witness: a file is about to be written for a product with the title of
\* an earlier product that has written a file of the same image index and
\* extension.
C4_Witness ==
    /\ pc = "img_write"
    /\ \E f \in DOMAIN owner :
          /\ owner[f] < product_count
          /\ f = FileName(owner[f], product_title, img_index, file_extension)

\* C5 as claimed: the k-th element that yields a URL is written under image
\* index k.
C5_IndexIsCandidateRank ==
    pc \in {"img_fetch", "img_write"} => img_index = cand

\* C5 as amended: the image index is the position of the element among all
\* matched elements of the product, those without a URL counted, starting at
\* 1 for every product; the file is named with it.
C5_IndexIsElementPosition ==
    /\ pc \in {"img_fetch", "img_write"}
            => /\ img_index = cand + skipped
               /\ 1 <= img_index
               /\ img_index <= nimgs
    /\ pc = "img_write"
            => file_name = FileName(product_count, product_title, cand + skipped,
                                    file_extension)

\* C5 witness: the second product of a run writes its first candidate, which
\* stands behind an element without a URL.
C5_Witness ==
    /\ pc = "img_write"
    /\ product_count = 2
    /\ cand = 1
    /\ skipped = 1

\* C6: a file changes only in the write of a response of status 200; a
\* response of another status (or none) leaves the files alone and the loops
\* where they are, so that the images and products behind it are processed.
C6_OnlyStatus200Written ==
    [][/\ fs' # fs => (pc = "img_write" /\ status = StatusOk)
       /\ (pc = "img_fetch" /\ pc' = "img_write") => status' = StatusOk
       /\ (pc = "img_fetch" /\ pc' # "img_write")
            => /\ pc' = "img_loop"
               /\ UNCHANGED <<fs, nimgs, img_index, nlinks, index, page,
                              product_count>>
      ]_vars

\* C6 witness: the first image of a product answered 404, no file of the
\* product exists, and the second image is being fetched.
C6_Witness ==
    /\ pc = "img_fetch"
    /\ img_index = 2
    /\ cand = 2
    /\ status \in OtherStatuses
    /\ \A f \in DOMAIN owner : owner[f] # product_count

\* C7: after a second call that got the answers of the first, the folder holds
\* the files the first call left, with the same bytes.
C7_SecondRunSameFiles ==
    (run = 2 /\ pc \in {"returned", "raised"}) => fs = fs1

\* C7 witness: the second call has returned and a file with the bytes of a
\* response is there.
C7_Witness ==
    /\ run = 2
    /\ pc = "returned"
    /\ \E f \in DOMAIN fs : fs[f] \in Bodies

\* C8: no file name written contains any of < > : " / \ | ? *.
C8_FileNamesSanitized == \A f \in DOMAIN fs : ~HasInvalid(f)

\* The path of a URL: what follows the host, up to the query or fragment.
UrlPath(u) ==
    LET cut == {i \in 1..Len(u) : u[i] \in {"?", "#"}}
        upto == IF cut = {} THEN Len(u)
                ELSE (CHOOSE i \in cut : \A j \in cut : i <= j) - 1
        bare == SubSeq(u, 1, upto)
        marks == {i \in 1..(Len(bare) - 1) : bare[i] = "/" /\ bare[i + 1] = "/"}
        host == IF marks = {} THEN 1
                ELSE (CHOOSE i \in marks : \A j \in marks : i <= j) + 2
        slashes == {i \in host..Len(bare) : bare[i] = "/"}
    IN  IF slashes = {} THEN <<>>
        ELSE SubSeq(bare, CHOOSE i \in slashes : \A j \in slashes : i <= j,
                    Len(bare))

\* The suffix of the last segment of a path, '.jpg' when it has none.
PathSuffix(path) ==
    LET sep == rfind(path, "/")
        dot == rfind(path, ".")
    IN  IF dot > sep + 1 THEN SubSeq(path, dot, Len(path))
        ELSE <<".", "j", "p", "g">>

\* C9: the extension of a file is the suffix of the last segment of the path
\* of its URL, query and fragment left out, and '.jpg' without one.
C9_ExtensionFromPath ==
    pc = "img_write" => file_extension = PathSuffix(UrlPath(img_url))

\* C10: clean_filename returns the title without the nine characters, cut to
\* its first 150 characters.
C10_CleanFilename ==
    pc = "clean_done"
        => LET kept == SelectSeq(raw, LAMBDA c : c \notin InvalidSet)
           IN  /\ product_title
                     = [i \in 1..Min(Len(kept), TitleLimit) |-> kept[i]]
               /\ ~HasInvalid(product_title)
               /\ Len(product_title) <= TitleLimit
               /\ (~HasInvalid(raw) /\ Len(raw) < TitleLimit)
                     => product_title = raw

\* C10 witness: a title of more than 150 characters, some of them invalid,
\* more than 150 of them valid, has been cut to 150.
C10_Witness ==
    /\ pc = "clean_done"
    /\ Len(raw) > TitleLimit
    /\ HasInvalid(raw)
    /\ Len(product_title) = TitleLimit

====
